---- MODULE Spec2Model ----
(***************************************************************************)
(* Model of the PowerReviews demo workbook of flatfile-sdk:                *)
(*   src/src/demo/power_reviews.ts  field validators, record hooks, sheets *)
(*   src/unnamed/part_000           fold, sequenceValidationT              *)
(*                                                                         *)
(* Conventions.  A JavaScript string is a sequence of one-character        *)
(* strings.  A JavaScript number used by the numeric validators is an      *)
(* integer count of thousandths (1000 is 1, 10 is 0.01), so that % 1 and   *)
(* the comparison with 0.01 are exact.  An Either is a record with a tag   *)
(* and one payload field, as in fp-ts.                                     *)
(***************************************************************************)
EXTENDS Integers, Sequences, FiniteSets, TLC

VARIABLES
    check,      \* the deferred check (a Lazy<ValidationResult>) under test
    lastIndex,  \* lastIndex of the RegExp object the check closes over
    results,    \* the results of the successive invocations of check
    inputs,     \* the ValidationResults handed to the runner / sequencer
    hook,       \* which field hook produced inputs
    fieldValue, \* the value that hook validated
    runOut,     \* what runValidations returned
    seqOut,     \* what sequenceValidationT returned
    record,     \* the FlatfileRecord: its data and its info messages
    call,       \* the last operation on the record and the rules given to it
    applied,    \* the rules that operation ran on the record, in order
    ret         \* what that operation returned

vars == <<check, lastIndex, results, inputs, hook, fieldValue, runOut, seqOut,
          record, call, applied, ret>>

checkVars == <<check, lastIndex, results>>
runnerVars == <<inputs, hook, fieldValue, runOut, seqOut>>
recordVars == <<record, call, applied, ret>>

(***************************************************************************)
(* Bounds of the model.                                                    *)
(***************************************************************************)
MaxInvocations == 2   \* invocations of one deferred check
MaxTextLen == 42      \* longest text given to max-length
MaxWhole == 6         \* largest integer part of a number
MaxRegexLen == 3      \* longest text given to regex-match
MaxUpcLen == 14       \* longest text given to upc-or-ean
VarLen == 2           \* trailing characters of a upc-or-ean text that vary
MaxResults == 3       \* results handed to the runner / sequencer at once
MaxRules == 2         \* rules handed to fold at once
MaxInfo == 3          \* messages a record may hold

(***************************************************************************)
(* fp-ts Either and the platform's Message.                                *)
(***************************************************************************)
Right(a) == [tag |-> "Right", right |-> a]
Left(e) == [tag |-> "Left", left |-> e]
isRight(r) == r.tag = "Right"
isLeft(r) == r.tag = "Left"

Message(text, level, stage) == [message |-> text, level |-> level, stage |-> stage]

(***************************************************************************)
(* JavaScript numbers that may be NaN (the digits of validateUpcOrEan).    *)
(* NaN is kept apart from every number the code can compute there, all of  *)
(* which are >= 0.                                                         *)
(***************************************************************************)
NaN == 0 - 1
JsAdd(a, b) == IF a = NaN \/ b = NaN THEN NaN ELSE a + b
JsMul(a, b) == IF a = NaN \/ b = NaN THEN NaN ELSE a * b
JsSub(a, b) == IF a = NaN \/ b = NaN THEN NaN ELSE a - b
JsMod(a, b) == IF a = NaN \/ b = NaN THEN NaN ELSE a % b
JsStrictNe(a, b) == a = NaN \/ b = NaN \/ a # b

DigitChars == {"0", "1", "2", "3", "4", "5", "6", "7", "8", "9"}
DigitValue(ch) ==
    CASE ch = "0" -> 0 [] ch = "1" -> 1 [] ch = "2" -> 2 [] ch = "3" -> 3
      [] ch = "4" -> 4 [] ch = "5" -> 5 [] ch = "6" -> 6 [] ch = "7" -> 7
      [] ch = "8" -> 8 [] ch = "9" -> 9

\* Number(strNum) of a one-character string: a digit is its value, white
\* space is 0, anything else is NaN.
Number(ch) ==
    IF ch \in DigitChars THEN DigitValue(ch)
    ELSE IF ch = " " THEN 0
    ELSE NaN

(***************************************************************************)
(* Field validations.                                                      *)
(***************************************************************************)
validateMaxLength(len, value) ==
    IF Len(value) <= len
    THEN Right(value)
    ELSE Left(<<Message("Cannot be more than " \o ToString(len) \o " characters.",
                        "warn", "validate")>>)

validateWholeNumber(value) ==
    IF value % 1000 = 0
    THEN Right(value)
    ELSE Left(<<Message("Whole numbers only.", "error", "validate")>>)

validateRangeExclusiveMax(min, max, value) ==
    IF value >= min * 1000 /\ value < max * 1000
    THEN Right(value)
    ELSE Left(<<Message("Value must be between " \o ToString(min) \o " and "
                          \o ToString(max) \o ".", "error", "validate")>>)

validateRangeInclusive(min, max, value) ==
    IF value >= min * 1000 /\ value <= max * 1000
    THEN Right(value)
    ELSE Left(<<Message("Value must be between " \o ToString(min) \o " and "
                          \o ToString(max) \o ".", "error", "validate")>>)

validatePositive(value) ==
    IF value >= 10
    THEN Right(value)
    ELSE Left(<<Message("Value must be at least 1 cent.", "error", "validate")>>)

(***************************************************************************)
(* RegExp.prototype.test on the pattern [^ ]+ (the only pattern the sheets *)
(* pass to validateRegex).  A global RegExp starts its search at lastIndex *)
(* and leaves lastIndex at the end of the match, or at 0 when there is no  *)
(* match; a non-global one always starts at 0 and leaves lastIndex alone.  *)
(* Indices are JavaScript's (from 0); value[i + 1] is the character at i.  *)
(***************************************************************************)
MatchStarts(value, from) == {i \in from..(Len(value) - 1) : value[i + 1] # " "}

MatchStart(value, from) ==
    CHOOSE i \in MatchStarts(value, from) : \A j \in MatchStarts(value, from) : i <= j

\* The first index at or after i that holds a space, or the length.
RECURSIVE MatchEnd(_, _)
MatchEnd(value, i) ==
    IF i >= Len(value) \/ value[i + 1] = " " THEN i ELSE MatchEnd(value, i + 1)

RegexSearchFrom(regex, at) == IF regex.global THEN at ELSE 0

RegexTest(regex, at, value) ==
    /\ RegexSearchFrom(regex, at) <= Len(value)
    /\ MatchStarts(value, RegexSearchFrom(regex, at)) # {}

RegexLastIndexAfter(regex, at, value) ==
    IF ~regex.global THEN at
    ELSE IF RegexTest(regex, at, value)
         THEN MatchEnd(value, MatchStart(value, at))
         ELSE 0

validateRegex(regex, at, value) ==
    IF RegexTest(regex, at, value)
    THEN Right(value)
    ELSE Left(<<Message("Value does not meet required format.", "warn", "validate")>>)

(***************************************************************************)
(* validateUpcOrEan.                                                       *)
(***************************************************************************)
\* /\d{12,13}/g.test(upcOrEan) on a fresh RegExp: some 12 consecutive
\* characters are digits.
UpcPatternTest(value) ==
    \E i \in 1..(Len(value) - 11) : \A j \in i..(i + 11) : value[j] \in DigitChars

\* Str.size(upcOrEan) === 12 ? Str.Monoid.concat("0", upcOrEan) : upcOrEan
UpcPad(value) == IF Len(value) = 12 THEN <<"0">> \o value ELSE value

\* pipe(Str.split("")(upcOrEan), RA.map((strNum) => Number(strNum)))
UpcAllDigits(upcOrEan) == [i \in 1..Len(upcOrEan) |-> Number(upcOrEan[i])]

\* pipe(RA.reverse(allDigits), RA.head, O.getOrElse(() => 0))
UpcChecksumDigit(allDigits) ==
    IF Len(allDigits) = 0 THEN 0 ELSE allDigits[Len(allDigits)]

\* RA.dropRight(1)
DropRight1(s) == IF Len(s) = 0 THEN s ELSE SubSeq(s, 1, Len(s) - 1)

\* RA.partitionWithIndex(p): right holds the elements whose index satisfies
\* p, left those whose index does not (fp-ts Separated); idx counts from 0.
RECURSIVE PartitionEvenIdx(_, _)
PartitionEvenIdx(s, n) ==
    IF n = 0 THEN [left |-> <<>>, right |-> <<>>]
    ELSE LET rest == PartitionEvenIdx(s, n - 1)
         IN  IF (n - 1) % 2 = 0
             THEN [left |-> rest.left, right |-> Append(rest.right, s[n])]
             ELSE [left |-> Append(rest.left, s[n]), right |-> rest.right]

\* RA.reduce(Num.MonoidSum.empty, (acc, digit) => Num.MonoidSum.concat(acc, digit))
RECURSIVE SumDigits(_, _)
SumDigits(s, n) == IF n = 0 THEN 0 ELSE JsAdd(SumDigits(s, n - 1), s[n])

\* const { left: evenIndices, right: oddIndices } = pipe(allDigits, ...)
\* const remainder = (sumEvens * 3 + sumOdds) % 10
UpcRemainder(allDigits) ==
    LET parts == PartitionEvenIdx(DropRight1(allDigits), Len(DropRight1(allDigits)))
        evenIndices == parts.left
        oddIndices == parts.right
        sumEvens == SumDigits(evenIndices, Len(evenIndices))
        sumOdds == SumDigits(oddIndices, Len(oddIndices))
    IN  JsMod(JsAdd(JsMul(sumEvens, 3), sumOdds), 10)

\* 10 - remainder !== checksumDigit
UpcChecksumMismatch(allDigits) ==
    JsStrictNe(JsSub(10, UpcRemainder(allDigits)), UpcChecksumDigit(allDigits))

validateUpcOrEan(value) ==
    IF ~UpcPatternTest(value)
    THEN Left(<<Message("Must be 12 or 13 digits.", "error", "validate")>>)
    ELSE IF UpcChecksumMismatch(UpcAllDigits(UpcPad(value)))
         THEN Left(<<Message("Invalid UPC or EAN.", "error", "validate")>>)
         ELSE Right(UpcPad(value))

(***************************************************************************)
(* The values the model hands to the validators.                           *)
(***************************************************************************)
RECURSIVE Repeat(_, _)
Repeat(ch, n) == IF n = 0 THEN <<>> ELSE Append(Repeat(ch, n - 1), ch)

RECURSIVE Texts(_, _)
Texts(chars, n) ==
    IF n = 0 THEN {<<>>}
    ELSE {Append(t, ch) : t \in Texts(chars, n - 1), ch \in chars}

TextsUpTo(chars, n) == UNION {Texts(chars, k) : k \in 0..n}

TextValues == {Repeat("x", n) : n \in 0..MaxTextLen}
MaxLengths == {0, 3, 40}

\* -1, -0.5, 0, 0.009, 0.01, 0.5, 1, ... in thousandths.
Numbers == {w * 1000 + f : w \in (0 - 1)..MaxWhole, f \in {0, 9, 10, 500}}
Ranges == {<<1, 5>>, <<0, 3>>}

RegexValues == TextsUpTo({"a", " "}, MaxRegexLen)
Regexes == {[source |-> "[^ ]+", global |-> g] : g \in BOOLEAN}

\* A upc-or-ean text is the head of one of these, cut to length, followed by
\* VarLen characters that range over the digits, the space and a letter.
UpcChars == DigitChars \cup {" ", "a"}
UpcBases ==
    { <<"0", "3", "6", "0", "0", "0", "2", "9", "1", "4", "5", "2", "0", "0">>,
      <<"0", "0", "0", "0", "0", "0", "0", "0", "0", "0", "0", "0", "0", "0">>,
      <<"4", "0", "0", "6", "3", "8", "1", "3", "3", "3", "9", "3", "1", "7">>,
      <<" ", "0", "3", "6", "0", "0", "0", "2", "9", "1", "4", "5", "2", "8">> }
UpcLens == 11..MaxUpcLen
UpcValues ==
    {SubSeq(b, 1, n - VarLen) \o t :
        b \in UpcBases, n \in UpcLens, t \in Texts(UpcChars, VarLen)}

(***************************************************************************)
(* A deferred check: the factory's parameters and the value it closed      *)
(* over.  Nothing is evaluated until the check is invoked.                 *)
(***************************************************************************)
NoRegex == [source |-> "", global |-> FALSE]
NoCheck ==
    [kind |-> "none", len |-> 0, min |-> 0, max |-> 0, regex |-> NoRegex,
     num |-> 0, text |-> <<>>]

CheckResult(c, at) ==
    CASE c.kind = "maxLength" -> validateMaxLength(c.len, c.text)
      [] c.kind = "wholeNumber" -> validateWholeNumber(c.num)
      [] c.kind = "rangeInclusive" -> validateRangeInclusive(c.min, c.max, c.num)
      [] c.kind = "regex" -> validateRegex(c.regex, at, c.text)
      [] c.kind = "positive" -> validatePositive(c.num)
      [] c.kind = "upcOrEan" -> validateUpcOrEan(c.text)

CheckLastIndexAfter(c, at) ==
    IF c.kind = "regex" THEN RegexLastIndexAfter(c.regex, at, c.text) ELSE at

Init ==
    /\ check = NoCheck
    /\ lastIndex = 0
    /\ results = <<>>
    /\ inputs = <<>>
    /\ hook = "none"
    /\ fieldValue = 0
    /\ runOut = [tag |-> "none"]
    /\ seqOut = [tag |-> "none"]
    /\ record = [loaded |-> FALSE]
    /\ call = [op |-> "none", rules |-> <<>>]
    /\ applied = <<>>
    /\ ret = [tag |-> "none"]

MakeMaxLength ==
    /\ check.kind = "none"
    /\ \E len \in MaxLengths, value \in TextValues :
          check' = [NoCheck EXCEPT !.kind = "maxLength", !.len = len, !.text = value]
    /\ UNCHANGED <<lastIndex, results, runnerVars, recordVars>>

MakeWholeNumber ==
    /\ check.kind = "none"
    /\ \E value \in Numbers :
          check' = [NoCheck EXCEPT !.kind = "wholeNumber", !.num = value]
    /\ UNCHANGED <<lastIndex, results, runnerVars, recordVars>>

MakeRangeInclusive ==
    /\ check.kind = "none"
    /\ \E r \in Ranges, value \in Numbers :
          check' = [NoCheck EXCEPT !.kind = "rangeInclusive", !.min = r[1],
                                   !.max = r[2], !.num = value]
    /\ UNCHANGED <<lastIndex, results, runnerVars, recordVars>>

\* validateRegex(/[^ ]+/g)(value): the RegExp literal is a new object, whose
\* lastIndex is 0, and the check keeps it.
MakeRegex ==
    /\ check.kind = "none"
    /\ \E regex \in Regexes, value \in RegexValues :
          check' = [NoCheck EXCEPT !.kind = "regex", !.regex = regex, !.text = value]
    /\ lastIndex' = 0
    /\ UNCHANGED <<results, runnerVars, recordVars>>

MakePositive ==
    /\ check.kind = "none"
    /\ \E value \in Numbers :
          check' = [NoCheck EXCEPT !.kind = "positive", !.num = value]
    /\ UNCHANGED <<lastIndex, results, runnerVars, recordVars>>

MakeUpcOrEan ==
    /\ check.kind = "none"
    /\ \E value \in UpcValues :
          check' = [NoCheck EXCEPT !.kind = "upcOrEan", !.text = value]
    /\ UNCHANGED <<lastIndex, results, runnerVars, recordVars>>

\* ensureX(): run the deferred check once more.
Invoke ==
    /\ check.kind # "none"
    /\ Len(results) < MaxInvocations
    /\ results' = Append(results, CheckResult(check, lastIndex))
    /\ lastIndex' = CheckLastIndexAfter(check, lastIndex)
    /\ UNCHANGED <<check, runnerVars, recordVars>>

NextCheck ==
    \/ MakeMaxLength
    \/ MakeWholeNumber
    \/ MakeRangeInclusive
    \/ MakeRegex
    \/ MakePositive
    \/ MakeUpcOrEan
    \/ Invoke

SpecCheck == Init /\ [][NextCheck]_vars

(***************************************************************************)
(* Properties of the deferred checks, under SpecCheck.                     *)
(***************************************************************************)
Invoked == check.kind # "none" /\ Len(results) >= 1

IsDigits(t) == \A i \in 1..Len(t) : t[i] \in DigitChars

\* The sum of the first n digits of t, the digit at index i (from 0)
\* weighted by wEven when i is even and by wOdd when i is odd.
RECURSIVE WeightedSum(_, _, _, _)
WeightedSum(t, n, wEven, wOdd) ==
    IF n = 0 THEN 0
    ELSE WeightedSum(t, n - 1, wEven, wOdd)
           + DigitValue(t[n]) * (IF (n - 1) % 2 = 0 THEN wEven ELSE wOdd)

LastDigit(t) == DigitValue(t[Len(t)])

\* GS1's check digit of a GTIN-13: the first twelve digits weigh 1, 3, 1, 3, ...
Gtin13CheckDigit(t) == (10 - (WeightedSum(t, 12, 1, 3) % 10)) % 10

\* The check digit of a UPC-A: the first eleven digits weigh 3, 1, 3, 1, ...
UpcACheckDigit(t) == (10 - (WeightedSum(t, 11, 3, 1) % 10)) % 10

OneIssue(r, level) ==
    /\ isLeft(r)
    /\ Len(r.left) = 1
    /\ r.left[1].level = level
    /\ r.left[1].stage = "validate"

\* C3 (as claimed): a 13-digit code with its correct GTIN-13 check digit
\* validates to Ok of itself, and the same code with any other last digit
\* fails with an error-severity issue.
C3_ChecksumRoundTrip ==
    (Invoked /\ check.kind = "upcOrEan" /\ Len(check.text) = 13 /\ IsDigits(check.text))
        => IF LastDigit(check.text) = Gtin13CheckDigit(check.text)
           THEN results[1] = Right(check.text)
           ELSE OneIssue(results[1], "error")

\* C4 (as claimed): a 12-digit code with its correct UPC-A check digit
\* validates to Ok of "0" followed by the code.
C4_UpcNormalization ==
    (Invoked /\ check.kind = "upcOrEan" /\ Len(check.text) = 12 /\ IsDigits(check.text)
       /\ LastDigit(check.text) = UpcACheckDigit(check.text))
        => results[1] = Right(<<"0">> \o check.text)

\* C5 (as claimed): a 13-digit code validates exactly when its last digit is
\* (10 - remainder) mod 10, where remainder = (3 * sum_even + sum_odd) mod 10
\* over the even and odd indices (from 0) of the first twelve digits.
C5_CheckDigitFormula ==
    (Invoked /\ check.kind = "upcOrEan" /\ Len(check.text) = 13 /\ IsDigits(check.text))
        => (isRight(results[1])
              <=> LastDigit(check.text)
                    = (10 - (WeightedSum(check.text, 12, 3, 1) % 10)) % 10)

\* C6 (as claimed): a successful upc-or-ean validation returns exactly 13
\* digit characters, whatever the input.
C6_NormalizedSuccess ==
    (Invoked /\ check.kind = "upcOrEan" /\ isRight(results[1]))
        => (Len(results[1].right) = 13 /\ IsDigits(results[1].right))

\* C7 (as claimed): invoking the same deferred check twice in a row gives
\* identical results, for every combinator and value.
C7_Idempotent ==
    (check.kind # "none" /\ Len(results) >= 2) => results[1] = results[2]

IsWhole(value) == \E k \in (0 - 1)..(MaxWhole + 1) : value = k * 1000

C10_Expected(c) ==
    CASE c.kind = "maxLength" -> Len(c.text) > c.len
      [] c.kind = "wholeNumber" -> ~IsWhole(c.num)
      [] c.kind = "rangeInclusive" -> c.num < c.min * 1000 \/ c.num > c.max * 1000
      [] c.kind = "positive" -> c.num < 10

C10_Value(c) == IF c.kind = "maxLength" THEN c.text ELSE c.num

C10_Severity(c) == IF c.kind = "maxLength" THEN "warn" ELSE "error"

\* C10: max-length, whole-number, range-inclusive and positive return Ok of
\* the unchanged value exactly when the tabled failure condition is false,
\* and otherwise Fail with one issue, of severity warn for max-length and
\* error for the others; 40 of 40 characters pass and 41 fail, 5 is in 1..5
\* and 6 is not, 0.01 is positive and 0 is not.
C10_SimpleCombinators ==
    /\ (Invoked /\ check.kind \in {"maxLength", "wholeNumber", "rangeInclusive", "positive"})
          => \A i \in 1..Len(results) :
                IF C10_Expected(check)
                THEN OneIssue(results[i], C10_Severity(check))
                ELSE results[i] = Right(C10_Value(check))
    /\ (Invoked /\ check.kind = "maxLength" /\ check.len = 40)
          => (isRight(results[1]) <=> Len(check.text) <= 40)
    /\ (Invoked /\ check.kind = "rangeInclusive" /\ check.min = 1 /\ check.max = 5)
          => /\ check.num = 5000 => results[1] = Right(5000)
             /\ check.num = 6000 => OneIssue(results[1], "error")
             /\ check.num = 1000 => results[1] = Right(1000)
    /\ (Invoked /\ check.kind = "positive")
          => /\ check.num = 10 => results[1] = Right(10)
             /\ check.num = 0 => OneIssue(results[1], "error")
             /\ check.num = 9 => OneIssue(results[1], "error")

\* range-inclusive(1, 5) has been invoked twice on 5 and accepted it.
C10_Witness ==
    /\ Invoked
    /\ check.kind = "rangeInclusive" /\ check.min = 1 /\ check.max = 5
    /\ check.num = 5000
    /\ results = <<Right(5000), Right(5000)>>

(***************************************************************************)
(* The applicative sequencer and the validation runner.                    *)
(***************************************************************************)
\* ap of E.getApplicativeValidation(NEA.getSemigroup<Message>()): two Lefts
\* concatenate, fab's issues first.  fab.right stands for the tuple
\* constructor with the values it has been given so far.
apFailFast(fab, fa) ==
    IF isLeft(fab) THEN fab
    ELSE IF isLeft(fa) THEN fa
    ELSE Right(Append(fab.right, fa.right))

apValidation(fab, fa) ==
    IF isLeft(fab)
    THEN IF isLeft(fa) THEN Left(fab.left \o fa.left) ELSE fab
    ELSE IF isLeft(fa) THEN fa
    ELSE Right(Append(fab.right, fa.right))

\* F.map(args[0], f)
mapTupleConstructor(fa) == IF isLeft(fa) THEN fa ELSE Right(<<fa.right>>)

\* Ap.sequenceT(F)(...args): fas = F.map(args[0], f), then
\* fas = F.ap(fas, args[i]) for i = 1 .. len - 1.
RECURSIVE SequenceUpTo(_, _)
SequenceUpTo(args, n) ==
    IF n = 1 THEN mapTupleConstructor(args[1])
    ELSE apValidation(SequenceUpTo(args, n - 1), args[n])

sequenceValidationT(args) == SequenceUpTo(args, Len(args))

\* runValidations(...results): Ok of the last value when every result is Ok,
\* else Fail of every issue of every failing result, in the order given.
RECURSIVE CollectIssues(_, _)
CollectIssues(rs, n) ==
    IF n = 0 THEN <<>>
    ELSE CollectIssues(rs, n - 1) \o (IF isLeft(rs[n]) THEN rs[n].left ELSE <<>>)

runValidations(rs) ==
    IF \A i \in 1..Len(rs) : isRight(rs[i])
    THEN Right(rs[Len(rs)].right)
    ELSE Left(CollectIssues(rs, Len(rs)))

\* rating.validate: both checks are built and invoked, whole-number first.
ratingResultsSwapped(value) ==
    <<validateRangeInclusive(1, 5, value), validateWholeNumber(value)>>

ratingResults(value) ==
    <<validateWholeNumber(value), validateRangeInclusive(1, 5, value)>>

Issues ==
    { Message("Whole numbers only.", "error", "validate"),
      Message("Value must be between 1 and 5.", "error", "validate"),
      Message("Value does not meet required format.", "warn", "validate") }
IssueLists == {<<a>> : a \in Issues} \cup {<<a, b>> : a \in Issues, b \in Issues}
SuppliedResults == {Right(v) : v \in {1000, 2000}} \cup {Left(e) : e \in IssueLists}

NoOutput == [tag |-> "none"]

\* One more already-invoked result is put in the argument list.
Supply ==
    /\ hook \in {"none", "supplied"}
    /\ runOut = NoOutput /\ seqOut = NoOutput
    /\ Len(inputs) < MaxResults
    /\ \E r \in SuppliedResults : inputs' = Append(inputs, r)
    /\ hook' = "supplied"
    /\ UNCHANGED <<fieldValue, runOut, seqOut, checkVars, recordVars>>

RunValidations ==
    /\ hook = "supplied"
    /\ runOut = NoOutput
    /\ runOut' = runValidations(inputs)
    /\ UNCHANGED <<inputs, hook, fieldValue, seqOut, checkVars, recordVars>>

Sequence ==
    /\ hook = "supplied"
    /\ seqOut = NoOutput
    /\ seqOut' = sequenceValidationT(inputs)
    /\ UNCHANGED <<inputs, hook, fieldValue, runOut, checkVars, recordVars>>

\* The rating field's validate hook, whole.
ValidateRating ==
    /\ hook = "none"
    /\ \E value \in Numbers :
          /\ fieldValue' = value
          /\ inputs' = ratingResults(value)
          /\ runOut' = runValidations(ratingResults(value))
    /\ hook' = "rating"
    /\ UNCHANGED <<seqOut, checkVars, recordVars>>

NextRunner ==
    \/ Supply
    \/ RunValidations
    \/ Sequence
    \/ ValidateRating

SpecRunner == Init /\ [][NextRunner]_vars

(***************************************************************************)
(* Properties of the runner and the sequencer, under SpecRunner.           *)
(***************************************************************************)
FailingInputs == {i \in 1..Len(inputs) : isLeft(inputs[i])}

\* The index of the j-th failing input.
NthFailing(j) ==
    CHOOSE i \in FailingInputs : Cardinality({m \in FailingInputs : m <= i}) = j

\* The issues of the inputs from index n on, in order.
RECURSIVE IssuesFrom(_)
IssuesFrom(n) ==
    IF n > Len(inputs) THEN <<>>
    ELSE (IF isLeft(inputs[n]) THEN inputs[n].left ELSE <<>>) \o IssuesFrom(n + 1)

\* C1: when k of the results given to runValidations are Fail, each with one
\* issue, it returns Fail with exactly those k issues in the order given, and
\* Ok only when k = 0; a rating that is neither whole nor in 1..5 yields the
\* whole-number issue followed by the range issue.
C1_Accumulation ==
    /\ (runOut # NoOutput /\ \A i \in FailingInputs : Len(inputs[i].left) = 1)
          => LET k == Cardinality(FailingInputs)
             IN  /\ isRight(runOut) <=> k = 0
                 /\ k > 0 => /\ isLeft(runOut)
                             /\ Len(runOut.left) = k
                             /\ \A j \in 1..k : runOut.left[j] = inputs[NthFailing(j)].left[1]
    /\ (hook = "rating" /\ ~IsWhole(fieldValue)
          /\ (fieldValue < 1000 \/ fieldValue > 5000))
          => runOut = Left(<<Message("Whole numbers only.", "error", "validate"),
                             Message("Value must be between 1 and 5.", "error", "validate")>>)

\* Three results of which the first and the last fail have been run.
C1_Witness ==
    /\ hook = "supplied" /\ Len(inputs) = 3
    /\ FailingInputs = {1, 3}
    /\ isLeft(runOut) /\ Len(runOut.left) = 2

\* C2: the sequencer returns Ok of the values in input order when every
\* input is Ok, and otherwise a non-empty Fail that is the concatenation, in
\* input order, of the issue lists of all the failing inputs.
C2_SequencerUnion ==
    seqOut # NoOutput
        => IF FailingInputs = {}
           THEN seqOut = Right([i \in 1..Len(inputs) |-> inputs[i].right])
           ELSE /\ seqOut = Left(IssuesFrom(1))
                /\ Len(seqOut.left) >= 1

\* [Ok, Fail([a]), Fail([b, c])] has been sequenced to Fail([a, b, c]).
C2_Witness ==
    /\ hook = "supplied" /\ Len(inputs) = 3
    /\ isRight(inputs[1]) /\ isLeft(inputs[2]) /\ isLeft(inputs[3])
    /\ Len(inputs[2].left) = 1 /\ Len(inputs[3].left) = 2
    /\ seqOut = Left(inputs[2].left \o inputs[3].left)

(***************************************************************************)
(* Record hooks.  A FlatfileRecord holds its data and the messages added   *)
(* to it; the model has one record, and TheRecord is the reference to it.  *)
(***************************************************************************)
Null == [type |-> "null"]
Undefined == [type |-> "undefined"]
Str(s) == [type |-> "string", value |-> s]

TheRecord == [tag |-> "record"]
ArrayOf(items) == [tag |-> "array", items |-> items]

\* G.isNil
isNil(v) == v = Null \/ v = Undefined

\* record.get(field)
recordGet(rec, field) == rec.data[field]

\* record.addError(field, message)
addError(rec, field, message) ==
    [rec EXCEPT !.info = Append(@, [field |-> field, message |-> message,
                                    level |-> "error", stage |-> "validate"])]

requiredFieldsAlways(rec) == addError(rec, "page_id", "Field is required.")

requiredFields(rec) ==
    IF isNil(recordGet(rec, "page_id"))
    THEN addError(rec, "page_id", "Field is required.")
    ELSE rec

Rules == {"requiredFields"}

\* The record after rule f has run on it, and what f returns.
RuleEffect(f, rec) == CASE f = "requiredFields" -> requiredFields(rec)
RuleReturn(f) == CASE f = "requiredFields" -> TheRecord

\* fold(...fns)(x) is fns.map((f) => f(x)): the rules run on x in index
\* order, and the value is the array of what each returned.  foldRun gives
\* the record after the first n rules, the rules run and the array so far.
RECURSIVE foldRun(_, _, _)
foldRun(fns, n, rec) ==
    IF n = 0 THEN [rec |-> rec, ran |-> <<>>, out |-> <<>>]
    ELSE LET before == foldRun(fns, n - 1, rec)
         IN  [rec |-> RuleEffect(fns[n], before.rec),
              ran |-> Append(before.ran, fns[n]),
              out |-> Append(before.out, RuleReturn(fns[n]))]

fold(fns, rec) ==
    LET run == foldRun(fns, Len(fns), rec)
    IN  [rec |-> run.rec, ran |-> run.ran, value |-> ArrayOf(run.out)]

RuleLists == UNION {[1..n -> Rules] : n \in 0..MaxRules}

PageIds == {Null, Str(""), Str("P-1")}
Titles == {Null, Str(""), Str("Great")}
PriorInfo ==
    { <<>>,
      <<[field |-> "page_id", message |-> "Cannot be more than 50 characters.",
         level |-> "warn", stage |-> "validate"]>>,
      <<[field |-> "title", message |-> "Cannot be more than 60 characters.",
         level |-> "warn", stage |-> "validate"]>> }

\* The platform hands over a record, which field validation may have
\* annotated already.
LoadRecord ==
    /\ ~record.loaded
    /\ \E p \in PageIds, t \in Titles, info \in PriorInfo :
          record' = [loaded |-> TRUE, data |-> [page_id |-> p, title |-> t],
                     info |-> info]
    /\ UNCHANGED <<call, applied, ret, checkVars, runnerVars>>

\* requiredFields(record), called directly.
ApplyRequiredFields ==
    /\ record.loaded
    /\ Len(record.info) < MaxInfo
    /\ record' = requiredFields(record)
    /\ call' = [op |-> "requiredFields", rules |-> <<>>]
    /\ applied' = <<"requiredFields">>
    /\ ret' = TheRecord
    /\ UNCHANGED <<checkVars, runnerVars>>

\* recordCompute of both sheets: return fold(requiredFields)(record).
RecordCompute ==
    /\ record.loaded
    /\ Len(record.info) < MaxInfo
    /\ record' = fold(<<"requiredFields">>, record).rec
    /\ call' = [op |-> "recordCompute", rules |-> <<"requiredFields">>]
    /\ applied' = fold(<<"requiredFields">>, record).ran
    /\ ret' = fold(<<"requiredFields">>, record).value
    /\ UNCHANGED <<checkVars, runnerVars>>

\* fold(r1, ..., rn)(record) for any list of rules.
Fold ==
    /\ record.loaded
    /\ \E fns \in RuleLists :
          /\ Len(record.info) + Len(fns) <= MaxInfo
          /\ record' = fold(fns, record).rec
          /\ call' = [op |-> "fold", rules |-> fns]
          /\ applied' = fold(fns, record).ran
          /\ ret' = fold(fns, record).value
    /\ UNCHANGED <<checkVars, runnerVars>>

NextRecord ==
    \/ LoadRecord
    \/ ApplyRequiredFields
    \/ RecordCompute
    \/ Fold

SpecRecord == Init /\ [][NextRecord]_vars

(***************************************************************************)
(* Properties of the record hooks, under SpecRecord.                       *)
(***************************************************************************)
\* C8 (as claimed): fold applies each rule once, in the declared order, and
\* returns the record itself, which recordCompute hands back.
C8_FoldDriver ==
    call.op \in {"fold", "recordCompute"}
        => (applied = call.rules /\ ret = TheRecord)

RequiredAnnotation ==
    [field |-> "page_id", message |-> "Field is required.",
     level |-> "error", stage |-> "validate"]

\* C9: requiredFields on a record whose page_id is null appends exactly one
\* annotation, for page_id and of error severity, and changes nothing else;
\* on a record whose page_id is present it changes nothing.
C9_RequiredFields ==
    [][ApplyRequiredFields =>
          IF record.data.page_id = Null
          THEN /\ record'.info = Append(record.info, RequiredAnnotation)
               /\ record'.data = record.data
          ELSE record' = record]_vars

\* requiredFields has just run on a record whose page_id is null and that
\* already held a warning.
C9_Witness ==
    /\ call.op = "requiredFields"
    /\ record.data.page_id = Null
    /\ Len(record.info) = 2
    /\ record.info[1].level = "warn"
    /\ record.info[2] = RequiredAnnotation

====
